---- MODULE Spec2Model ----
(***************************************************************************)
(* RLPx disconnect reason codec (crates/net/eth-wire/src/disconnect.rs).   *)
(*                                                                         *)
(* The registry (the DisconnectReason enum and TryFrom<u8>), the encoder   *)
(* (Encodable) and the tolerant decoder (Decodable) are pure functions;    *)
(* they are operators here.  The state machine is a caller that performs   *)
(* one call at a time and records its arguments and its outcome.           *)
(***************************************************************************)
EXTENDS Integers, Sequences, FiniteSets, TLC

VARIABLES
    pc,      \* the caller's position: idle, or which call has returned
    reason,  \* the DisconnectReason handed to encode or length ("none" if none)
    value,   \* the u8 handed to try_from
    input,   \* the payload handed to decode
    out0,    \* the output buffer before encode
    out,     \* the output buffer after encode
    buf,     \* what decode left of its input buffer
    len,     \* what length returned
    ret      \* what try_from or decode returned

vars == <<pc, reason, value, input, out0, out, buf, len, ret>>

(***************************************************************************)
(* Bounds of the explored inputs.                                          *)
(***************************************************************************)
\* longest payload handed to decode (one more than the longest accepted)
MaxLen == 5

\* a u8
Byte == 0..255

\* bytes put in front of the significant byte: 0x00, 0x01 and 0xc1 (the
\* prefix of a one-byte list)
HeaderBytes == {0, 1, 193}

\* what precedes the significant byte of the canonical layout: 0x02 0x04 0xc1
SnappyHeader == <<2, 4, 193>>

Headers == {SnappyHeader} \cup UNION {[1..n -> HeaderBytes] : n \in 0..(MaxLen - 1)}

\* every payload of at most MaxLen bytes: header bytes, then any final byte
Payloads == {<< >>} \cup {Append(h, b) : h \in Headers, b \in Byte}

(***************************************************************************)
(* Results.  A Rust Result is a record; a panic is a third outcome.        *)
(***************************************************************************)
Ok(v) == [kind |-> "Ok", v |-> v]
Err(e) == [kind |-> "Err", v |-> e]
Panic == [kind |-> "Panic", v |-> << >>]

\* DecodeError values (reth_rlp); Custom carries a static string and nothing else
InputTooShort == [error |-> "InputTooShort"]
Overflow == [error |-> "Overflow"]
LeadingZero == [error |-> "LeadingZero"]
UnexpectedList == [error |-> "UnexpectedList"]
NonCanonicalSingleByte == [error |-> "NonCanonicalSingleByte"]
NonCanonicalSize == [error |-> "NonCanonicalSize"]
Custom(msg) == [error |-> "Custom", msg |-> msg]

\* pub struct UnknownDisconnectReason(u8)
UnknownDisconnectReason(b) == [error |-> "UnknownDisconnectReason", code |-> b]

(***************************************************************************)
(* Reason registry.                                                        *)
(***************************************************************************)
\* enum DisconnectReason: the variants with their discriminants
DisconnectReason ==
    [ DisconnectRequested |-> 0,
      TcpSubsystemError |-> 1,
      ProtocolBreach |-> 2,
      UselessPeer |-> 3,
      TooManyPeers |-> 4,
      AlreadyConnected |-> 5,
      IncompatibleP2PProtocolVersion |-> 6,
      NullNodeIdentity |-> 7,
      ClientQuitting |-> 8,
      UnexpectedHandshakeIdentity |-> 9,
      ConnectedToSelf |-> 10,
      PingTimeout |-> 11,
      SubprotocolSpecific |-> 16 ]

\* all_reasons() of the tests: every variant
all_reasons == DOMAIN DisconnectReason

\* `reason as u8`
as_u8(r) == DisconnectReason[r]

\* Default::default()
default == "DisconnectRequested"

\* a registry that falls back to the default variant for an unknown code
try_from_defaulting(b) ==
    CASE b = 0 -> Ok("DisconnectRequested")
      [] b = 1 -> Ok("TcpSubsystemError")
      [] b = 2 -> Ok("ProtocolBreach")
      [] b = 3 -> Ok("UselessPeer")
      [] b = 4 -> Ok("TooManyPeers")
      [] b = 5 -> Ok("AlreadyConnected")
      [] b = 6 -> Ok("IncompatibleP2PProtocolVersion")
      [] b = 7 -> Ok("NullNodeIdentity")
      [] b = 8 -> Ok("ClientQuitting")
      [] b = 9 -> Ok("UnexpectedHandshakeIdentity")
      [] b = 10 -> Ok("ConnectedToSelf")
      [] b = 11 -> Ok("PingTimeout")
      [] b = 16 -> Ok("SubprotocolSpecific")
      [] OTHER -> Ok(default)

\* impl TryFrom<u8> for DisconnectReason
try_from(b) ==
    CASE b = 0 -> Ok("DisconnectRequested")
      [] b = 1 -> Ok("TcpSubsystemError")
      [] b = 2 -> Ok("ProtocolBreach")
      [] b = 3 -> Ok("UselessPeer")
      [] b = 4 -> Ok("TooManyPeers")
      [] b = 5 -> Ok("AlreadyConnected")
      [] b = 6 -> Ok("IncompatibleP2PProtocolVersion")
      [] b = 7 -> Ok("NullNodeIdentity")
      [] b = 8 -> Ok("ClientQuitting")
      [] b = 9 -> Ok("UnexpectedHandshakeIdentity")
      [] b = 10 -> Ok("ConnectedToSelf")
      [] b = 11 -> Ok("PingTimeout")
      [] b = 16 -> Ok("SubprotocolSpecific")
      [] OTHER -> Err(UnknownDisconnectReason(b))

(***************************************************************************)
(* The RLP primitives of reth_rlp that the codec calls: the list encoder   *)
(* for Vec<u8> and the decoder for u8.  A buffer is a sequence of bytes;   *)
(* a decoder returns its result together with what is left of the buffer.  *)
(***************************************************************************)
\* 0x80: the empty string, which also encodes the integer zero
EMPTY_STRING_CODE == 128

\* 0xc0: the empty list
EMPTY_LIST_CODE == 192

\* Buf::advance(n), for n <= Len(b)
advance(b, n) == SubSeq(b, n + 1, Len(b))

\* big-endian value of a byte string
RECURSIVE from_be_bytes(_)
from_be_bytes(s) ==
    IF s = << >> THEN 0
    ELSE from_be_bytes(SubSeq(s, 1, Len(s) - 1)) * 256 + s[Len(s)]

\* static_left_pad::<LEN>: None (FALSE) when too long or with a leading zero
static_left_pad_ok(data, LEN) ==
    /\ Len(data) <= LEN
    /\ (data = << >> \/ data[1] # 0)

\* u8::length
u8_length(x) == IF x < EMPTY_STRING_CODE THEN 1 ELSE 2

\* u8::encode
u8_encode(x, o) ==
    IF x = 0 THEN Append(o, EMPTY_STRING_CODE)
    ELSE IF x < EMPTY_STRING_CODE THEN Append(o, x)
    ELSE o \o <<EMPTY_STRING_CODE + 1, x>>

RECURSIVE list_payload_length(_)
list_payload_length(v) ==
    IF v = << >> THEN 0 ELSE u8_length(Head(v)) + list_payload_length(Tail(v))

RECURSIVE encode_items(_, _)
encode_items(v, o) ==
    IF v = << >> THEN o ELSE encode_items(Tail(v), u8_encode(Head(v), o))

\* Vec<u8>::encode: a list header, then every element (payloads under 256 bytes)
vec_encode(v, o) ==
    LET n == list_payload_length(v)
        h == IF n < 56 THEN <<EMPTY_LIST_CODE + n>> ELSE <<247 + 1, n>>
    IN  encode_items(v, o \o h)

\* the long forms of Header::decode: a length of len_of_len bytes follows
header_long(b1, len_of_len, is_list) ==
    IF Len(b1) < len_of_len THEN [res |-> Err(InputTooShort), buf |-> b1]
    ELSE IF ~static_left_pad_ok(SubSeq(b1, 1, len_of_len), 8)
    THEN [res |-> Err(LeadingZero), buf |-> b1]
    ELSE LET n == from_be_bytes(SubSeq(b1, 1, len_of_len))
             b2 == advance(b1, len_of_len)
         IN  IF n < 56 THEN [res |-> Err(NonCanonicalSize), buf |-> b2]
             ELSE [res |-> Ok([list |-> is_list, payload_length |-> n]), buf |-> b2]

\* Header::decode, before its final check of the remaining length
header_first(b) ==
    IF b = << >> THEN [res |-> Err(InputTooShort), buf |-> b]
    ELSE LET c == b[1]
             b1 == advance(b, 1)
         IN  IF c < 128
             THEN [res |-> Ok([list |-> FALSE, payload_length |-> 1]), buf |-> b]
             ELSE IF c < 184
             THEN IF c - 128 = 1 /\ b1 = << >>
                  THEN [res |-> Err(InputTooShort), buf |-> b1]
                  ELSE IF c - 128 = 1 /\ b1[1] < 128
                  THEN [res |-> Err(NonCanonicalSingleByte), buf |-> b1]
                  ELSE [res |-> Ok([list |-> FALSE, payload_length |-> c - 128]),
                        buf |-> b1]
             ELSE IF c < 192 THEN header_long(b1, c - 183, FALSE)
             ELSE IF c < 248
             THEN [res |-> Ok([list |-> TRUE, payload_length |-> c - 192]), buf |-> b1]
             ELSE header_long(b1, c - 247, TRUE)

\* Header::decode
header_decode(b) ==
    LET h == header_first(b)
    IN  IF h.res.kind = "Ok" /\ Len(h.buf) < h.res.v.payload_length
        THEN [res |-> Err(InputTooShort), buf |-> h.buf]
        ELSE h

\* u8::decode
u8_decode(b) ==
    LET h == header_decode(b)
    IN  IF h.res.kind # "Ok" THEN h
        ELSE IF h.res.v.list THEN [res |-> Err(UnexpectedList), buf |-> h.buf]
        ELSE IF h.res.v.payload_length > 1 THEN [res |-> Err(Overflow), buf |-> h.buf]
        ELSE IF Len(h.buf) < h.res.v.payload_length
        THEN [res |-> Err(InputTooShort), buf |-> h.buf]
        ELSE LET data == SubSeq(h.buf, 1, h.res.v.payload_length)
             IN  IF ~static_left_pad_ok(data, 1)
                 THEN [res |-> Err(LeadingZero), buf |-> h.buf]
                 ELSE [res |-> Ok(from_be_bytes(data)),
                       buf |-> advance(h.buf, h.res.v.payload_length)]

(***************************************************************************)
(* Encoder.                                                                *)
(***************************************************************************)
\* an encoder that writes the code itself instead of its RLP encoding
encode_raw_code(r, o) == o \o <<2, 4, EMPTY_LIST_CODE + 1, as_u8(r)>>

\* DisconnectReason::encode: put_u8(0x02); put_u8(0x04); vec![*self as u8].encode(out)
encode(r, o) == vec_encode(<<as_u8(r)>>, Append(Append(o, 2), 4))

\* a length that reports the RLP list alone, without the two header bytes
length_without_header(r) == 2

\* DisconnectReason::length
length(r) == 4

(***************************************************************************)
(* Tolerant decoder.                                                       *)
(***************************************************************************)
\* the message of the error for a payload of more than four bytes
INVALID_LENGTH == "invalid disconnect reason length"

\* the message of the error for a byte that is no assigned code
UNKNOWN_REASON == "unknown disconnect reason"

\* a resolution that falls back to the default reason for an unknown byte
resolve_or_default(d) ==
    IF d.res.kind # "Ok" THEN d
    ELSE LET t == try_from(d.res.v)
         IN  IF t.kind = "Ok" THEN [res |-> t, buf |-> d.buf]
             ELSE [res |-> Ok(default), buf |-> d.buf]

\* the closing lines of decode: resolve the byte through the registry; the
\* UnknownDisconnectReason is dropped by map_err(|_| ...)
resolve(d) ==
    IF d.res.kind # "Ok" THEN d
    ELSE LET t == try_from(d.res.v)
         IN  IF t.kind = "Ok" THEN [res |-> t, buf |-> d.buf]
             ELSE [res |-> Err(Custom(UNKNOWN_REASON)), buf |-> d.buf]

\* the branch without the literal zero of geth
decode_last_generic(b) == u8_decode(advance(b, Len(b) - 1))

\* the branch skipping the whole buffer, so that buf[0] is out of bounds
decode_last_skip_all(b) ==
    LET b1 == advance(b, Len(b))
    IN  IF b1 = << >> THEN [res |-> Panic, buf |-> b1]
        ELSE IF b1[1] = 0 THEN [res |-> Ok(as_u8("DisconnectRequested")), buf |-> b1]
        ELSE u8_decode(b1)

\* the body of the `2 <= len <= 4` branch: skip to the last byte, then the
\* literal zero of geth or the generic u8 decoding; buf[0] panics on an
\* empty buffer
decode_last(b) ==
    LET b1 == advance(b, Len(b) - 1)
    IN  IF b1 = << >> THEN [res |-> Panic, buf |-> b1]
        ELSE IF b1[1] = 0 THEN [res |-> Ok(as_u8("DisconnectRequested")), buf |-> b1]
        ELSE u8_decode(b1)

\* a decoder that reads the reason at the front of the buffer
decode_first_byte(b) ==
    IF b = << >> THEN [res |-> Err(InputTooShort), buf |-> b]
    ELSE IF Len(b) <= 4 THEN resolve(u8_decode(b))
    ELSE [res |-> Err(Custom(INVALID_LENGTH)), buf |-> b]

\* a decoder that accepts the canonical four bytes only
decode_canonical_only(b) ==
    IF Len(b) < 4 THEN [res |-> Err(InputTooShort), buf |-> b]
    ELSE IF Len(b) = 4 THEN resolve(decode_last(b))
    ELSE [res |-> Err(Custom(INVALID_LENGTH)), buf |-> b]

\* a decoder without the upper limit on the length
decode_any_length(b) ==
    IF b = << >> THEN [res |-> Err(InputTooShort), buf |-> b]
    ELSE IF Len(b) = 1 THEN resolve(u8_decode(b))
    ELSE resolve(decode_last(b))

\* a decoder that applies the literal zero to a payload of one byte too
decode_zero_any(b) ==
    IF b = << >> THEN [res |-> Err(InputTooShort), buf |-> b]
    ELSE IF Len(b) <= 4 THEN resolve(decode_last(b))
    ELSE [res |-> Err(Custom(INVALID_LENGTH)), buf |-> b]

\* DisconnectReason::decode
decode(b) ==
    IF b = << >> THEN [res |-> Err(InputTooShort), buf |-> b]
    ELSE IF Len(b) = 1 THEN resolve(u8_decode(b))
    ELSE IF Len(b) <= 4 THEN resolve(decode_last(b))
    ELSE [res |-> Err(Custom(INVALID_LENGTH)), buf |-> b]

(***************************************************************************)
(* The caller.                                                             *)
(***************************************************************************)
\* what the output buffer holds when encode is called: nothing, or the
\* message id 0x01 that the enclosing p2p message wrote
OutPrefixes == {<< >>, <<1>>}

None == [kind |-> "None", v |-> << >>]

\* the bytes that encode appended to the output buffer
written == SubSeq(out, Len(out0) + 1, Len(out))

Init ==
    /\ pc = "idle"
    /\ reason = "none"
    /\ value = 0
    /\ input = << >>
    /\ out0 = << >>
    /\ out = << >>
    /\ buf = << >>
    /\ len = 0
    /\ ret = None

\* reason.encode(&mut out)
Encode(r, o) ==
    /\ pc = "idle"
    /\ pc' = "encoded"
    /\ reason' = r
    /\ out0' = o
    /\ out' = encode(r, o)
    /\ UNCHANGED <<value, input, buf, len, ret>>

\* reason.length(), on its own or for the reason just encoded
Length(r) ==
    /\ pc \in {"idle", "encoded"}
    /\ pc = "encoded" => r = reason
    /\ pc' = "measured"
    /\ reason' = r
    /\ len' = length(r)
    /\ UNCHANGED <<value, input, out0, out, buf, ret>>

\* DisconnectReason::try_from(b)
TryFrom(b) ==
    /\ pc = "idle"
    /\ pc' = "converted"
    /\ value' = b
    /\ ret' = try_from(b)
    /\ UNCHANGED <<reason, input, out0, out, buf, len>>

\* DisconnectReason::decode(&mut &p[..]) on a payload received from a peer
Decode(p) ==
    /\ pc = "idle"
    /\ pc' = "decoded"
    /\ input' = p
    /\ ret' = decode(p).res
    /\ buf' = decode(p).buf
    /\ UNCHANGED <<reason, value, out0, out, len>>

\* the round trip of the tests: decode the bytes that encode just wrote
DecodeEncoded ==
    /\ pc = "encoded"
    /\ pc' = "decoded"
    /\ input' = written
    /\ ret' = decode(written).res
    /\ buf' = decode(written).buf
    /\ UNCHANGED <<reason, value, out0, out, len>>

\* the values are dropped; the caller is ready for the next call
Return ==
    /\ pc # "idle"
    /\ pc' = "idle"
    /\ reason' = "none"
    /\ value' = 0
    /\ input' = << >>
    /\ out0' = << >>
    /\ out' = << >>
    /\ buf' = << >>
    /\ len' = 0
    /\ ret' = None

\* the caller makes a call only when idle; the position is tested before the
\* inputs are drawn
Next ==
    \/ pc = "idle" /\ \E r \in all_reasons, o \in OutPrefixes : Encode(r, o)
    \/ pc \in {"idle", "encoded"} /\ \E r \in all_reasons : Length(r)
    \/ pc = "idle" /\ \E b \in Byte : TryFrom(b)
    \/ pc = "idle" /\ \E p \in Payloads : Decode(p)
    \/ DecodeEncoded
    \/ Return

Spec == Init /\ [][Next]_vars

TypeOK ==
    /\ pc \in {"idle", "encoded", "measured", "converted", "decoded"}
    /\ reason \in all_reasons \cup {"none"}
    /\ value \in Byte
    /\ len \in Nat
    /\ ret.kind \in {"None", "Ok", "Err", "Panic"}

(***************************************************************************)
(* Properties.                                                             *)
(***************************************************************************)
\* the codes of the protocol's table: 0x00..0x0b and 0x10
AssignedCodes == (0..11) \cup {16}

\* the call returned Ok(v)
returned(v) == ret.kind = "Ok" /\ ret.v = v

\* the call returned Err(e)
failed(e) == ret.kind = "Err" /\ ret.v = e

\* the last byte of the payload handed to decode
last_byte == input[Len(input)]

\* C1: round trip.  Decoding the bytes that encode wrote for a reason r
\* succeeds and returns r, for every one of the 13 reasons.
C1_RoundTrip ==
    (pc = "decoded" /\ reason # "none") => (ret.kind = "Ok" /\ ret.v = reason)

\* C1 witness: the round trip of the reason whose code is written as 0x80
C1_Witness ==
    /\ pc = "decoded"
    /\ reason = "DisconnectRequested"
    /\ input = <<2, 4, 193, 128>>
    /\ ret.kind = "Ok"

\* C2 as stated: encode appends 0x02 0x04 0xc1 and then the reason's numeric
\* code itself.
C2_CodeItself ==
    pc = "encoded" => out = out0 \o <<2, 4, 193, as_u8(reason)>>

\* C2 amended: encode appends 0x02 0x04 0xc1 and then the RLP encoding of the
\* code: the code itself for 0x01..0x0b and 0x10, and 0x80 for the code 0x00.
C2_CanonicalWireFormat ==
    pc = "encoded" =>
        out = out0 \o <<2, 4, 193, IF as_u8(reason) = 0 THEN 128 ELSE as_u8(reason)>>

\* C2 witness: DisconnectRequested encoded behind a message id
C2_Witness ==
    /\ pc = "encoded"
    /\ reason = "DisconnectRequested"
    /\ out0 = <<1>>
    /\ out = <<1, 2, 4, 193, 128>>

\* C3: fixed length.  encode writes exactly 4 bytes, length returns 4, and
\* the length reported for an encoded reason is the number of bytes written.
C3_FixedLength ==
    /\ pc = "encoded" => Len(written) = 4
    /\ pc = "measured" => len = 4
    /\ (pc = "measured" /\ out # << >>) => len = Len(written)

\* C3 witness: the length asked for a reason that has just been encoded
C3_Witness ==
    /\ pc = "measured"
    /\ reason = "SubprotocolSpecific"
    /\ Len(written) = 4
    /\ len = 4

\* C4: registry partiality.  try_from(b) is Ok(r) exactly for the 13 assigned
\* codes, r being the one reason whose code is b; for any other byte it is
\* the error UnknownDisconnectReason wrapping b.
C4_RegistryPartiality ==
    pc = "converted" =>
        /\ ret.kind = "Ok" <=> value \in AssignedCodes
        /\ ret.kind = "Ok" =>
               /\ ret.v \in all_reasons
               /\ as_u8(ret.v) = value
               /\ \A r \in all_reasons : as_u8(r) = value => r = ret.v
        /\ ret.kind # "Ok" => failed(UnknownDisconnectReason(value))

\* C4 witness: an unassigned code between the two assigned ranges
C4_Witness ==
    /\ pc = "converted"
    /\ value = 12
    /\ failed(UnknownDisconnectReason(12))

\* C5: historical formats.  With e the RLP byte of an assigned code c (0x80
\* for 0, c otherwise), the payloads e, c1 e, 00 e and 02 04 c1 e decode to
\* the reason with code c; 01 00 03 and 01 00 00 decode to a reason too.
C5_HistoricalFormats ==
    pc = "decoded" =>
        /\ \A c \in AssignedCodes :
               LET e == IF c = 0 THEN 128 ELSE c
               IN  input \in {<<e>>, <<193, e>>, <<0, e>>, <<2, 4, 193, e>>} =>
                       (ret.kind = "Ok" /\ as_u8(ret.v) = c)
        /\ input \in {<<1, 0, 3>>, <<1, 0, 0>>} =>
               (ret.kind = "Ok" /\ ret.v \in all_reasons)

\* C5 witness: the layout seen once, 01 00 03, decoded to a reason
C5_Witness ==
    /\ pc = "decoded"
    /\ input = <<1, 0, 3>>
    /\ returned("UselessPeer")

\* C6: literal zero.  A payload of 2, 3 or 4 bytes that ends in 0x00 decodes
\* to DisconnectRequested whatever precedes the final byte.
C6_LiteralZero ==
    (pc = "decoded" /\ Len(input) \in 2..4 /\ last_byte = 0) =>
        returned("DisconnectRequested")

\* C6 witness: a literal zero behind two non-zero bytes
C6_Witness ==
    /\ pc = "decoded"
    /\ input = <<193, 1, 0>>
    /\ returned("DisconnectRequested")

\* C7 as stated: decoding the single byte 0x0c gives the unknown-reason
\* error, and that error carries the byte 0x0c.
C7_CarriesByte ==
    (pc = "decoded" /\ input = <<12>>) =>
        /\ ret.kind = "Err"
        /\ "code" \in DOMAIN ret.v
        /\ ret.v.code = 12

\* C7 amended: a payload of 1 to 4 bytes whose final byte is an unassigned
\* code below 0x80 (0x0c..0x0f, 0x11..0x7f) decodes to the custom error
\* "unknown disconnect reason", which holds that text and no byte.
C7_UnknownRejected ==
    (pc = "decoded" /\ Len(input) \in 1..4 /\ last_byte \in (1..127) \ AssignedCodes) =>
        /\ failed(Custom("unknown disconnect reason"))
        /\ DOMAIN ret.v = {"error", "msg"}

\* C7 witness: the single byte 0x0c rejected
C7_Witness ==
    /\ pc = "decoded"
    /\ input = <<12>>
    /\ failed(Custom("unknown disconnect reason"))

\* the three errors of the documented taxonomy
DocumentedErrors ==
    {InputTooShort, Custom("invalid disconnect reason length"),
     Custom("unknown disconnect reason")}

\* C8 as stated: decode returns a reason or one of InputTooShort, the
\* invalid-length error and the unknown-reason error, and nothing else.
C8_ThreeErrors ==
    pc = "decoded" =>
        \/ ret.kind = "Ok" /\ ret.v \in all_reasons
        \/ ret.kind = "Err" /\ ret.v \in DocumentedErrors

\* C8 amended: decode never panics; it returns a reason or one of five
\* errors: the three documented ones, and LeadingZero or UnexpectedList
\* passed on from the generic decoding of the byte.
C8_ClosedErrors ==
    pc = "decoded" =>
        \/ ret.kind = "Ok" /\ ret.v \in all_reasons
        \/ ret.kind = "Err" /\ ret.v \in DocumentedErrors \cup {LeadingZero, UnexpectedList}

\* C8 witness: a four-byte payload ending in the empty list 0xc0
C8_Witness ==
    /\ pc = "decoded"
    /\ Len(input) = 4
    /\ last_byte = 192
    /\ failed(UnexpectedList)

\* C9: rejection by length.  The empty payload gives InputTooShort, a
\* payload of more than 4 bytes gives the invalid-length error whatever its
\* bytes, and in both cases the buffer is left as it was.
C9_RejectedByLength ==
    pc = "decoded" =>
        /\ input = << >> => (failed(InputTooShort) /\ buf = input)
        /\ Len(input) > 4 =>
               (failed(Custom("invalid disconnect reason length")) /\ buf = input)

\* C9 witness: five bytes ending in a literal zero, rejected and untouched
C9_Witness ==
    /\ pc = "decoded"
    /\ Len(input) = 5
    /\ last_byte = 0
    /\ ret.kind = "Err"
    /\ buf = input

\* C10: the single byte 0x00 does not decode; it is an error, not
\* DisconnectRequested.
C10_SingleZeroFails ==
    (pc = "decoded" /\ input = <<0>>) => ret.kind = "Err"

\* C10 witness: the single byte 0x00 refused by the generic decoding
C10_Witness ==
    /\ pc = "decoded"
    /\ input = <<0>>
    /\ failed(LeadingZero)

====
